---- MODULE Spec2Model ----
(***************************************************************************)
(* A model of go-tempura's MultiLookup (src/mux.go): prefix routing,       *)
(* validation, the sequential resolver MultiLookup.FuncMapValue and the    *)
(* concurrent resolver MultiLookupContext.FuncMapValue with its buffered   *)
(* result channels and goroutines.                                         *)
(*                                                                         *)
(* Strings are sequences of one-character strings, so that Match and Strip *)
(* are computed as strings.HasPrefix and strings.TrimPrefix compute them.  *)
(***************************************************************************)
EXTENDS Naturals, Sequences, FiniteSets, TLC

\* The longest candidate-key list (args ...string) a call is given.
MaxArgs == 2

-----------------------------------------------------------------------------
\* Strings

HasPrefix(s, p) == Len(p) <= Len(s) /\ SubSeq(s, 1, Len(p)) = p

TrimPrefix(s, p) == IF HasPrefix(s, p) THEN SubSeq(s, Len(p) + 1, Len(s)) ELSE s

-----------------------------------------------------------------------------
\* Prefix types: a DotPrefix or SlashPrefix is a string (its label); the type
\* decides the separator appended by fmt.Sprintf("%s.", p) / ("%s/", p).

DotPrefix(label) == [type |-> "DotPrefix", label |-> label]

SlashPrefix(label) == [type |-> "SlashPrefix", label |-> label]

\* Mutant: SlashPrefix formats its label with "%s." as DotPrefix does.
Separator_BothDot(p) == <<".">>

Separator(p) == IF p.type = "DotPrefix" THEN <<".">> ELSE <<"/">>

\* Mutant: labels and keys are compared without regard to case
\* (strings.ToLower on both sides before strings.HasPrefix).
ToLower(s) == [j \in DOMAIN s |-> IF s[j] = "A" THEN "a" ELSE s[j]]

Match_CaseFolded(p, s) == HasPrefix(ToLower(s), ToLower(p.label \o Separator(p)))

Match(p, s) == HasPrefix(s, p.label \o Separator(p))

Strip(p, s) == TrimPrefix(s, p.label \o Separator(p))

\* The prefixes a registry of the model may hold: the same label under both
\* separators, and a label that contains another prefix's label and separator.
SlashA == SlashPrefix(<<"a">>)
DotA == DotPrefix(<<"a">>)
SlashAB == SlashPrefix(<<"a", ".", "b">>)

PrefixUniverse == {SlashA, DotA, SlashAB}

\* The candidate keys a template may pass: "a/" (SlashA only, and its bare key
\* is the empty string), "a.y" (DotA only), "a.b/z" (DotA and SlashAB both
\* match).  A key is unmatched whenever the registry lacks its prefix.
KeyUniverse == {<<"a", "/">>, <<"a", ".", "y">>, <<"a", ".", "b", "/", "z">>}

-----------------------------------------------------------------------------
\* Lookup function shapes (the dynamic type of a LookupFunc).  "Other" is a
\* LookupFunc that is none of the four types, e.g. a nil map value.

Plain == "LookupAny"
Fallible == "LookupAnyWithError"
Contextual == "LookupAnyWithContext"
ContextualFallible == "LookupAnyWithContextError"
Other == "other"

Shapes == {Plain, Fallible, Contextual, ContextualFallible, Other}

\* Values and errors.  NilVal is the nil interface value, ZeroVal the empty
\* string ""; every other value is a non-empty string.
NilVal == <<"nil">>
ZeroVal == <<>>

NoErr == [kind |-> "nil"]

LookupErr(p, bare) == [kind |-> "LookupError", Prefix |-> p, bare |-> bare]

ErrNoFunctionRegistered == [kind |-> "ErrNoFunctionRegistered"]

ErrContextUntypedNil == [kind |-> "ErrContextUntypedNil"]

InvalidFunctionError(type, p, wrap) ==
    [kind |-> "InvalidFunctionError", Type |-> type, Prefix |-> p, wrap |-> wrap]

MatchFailedError(a, labels) ==
    [kind |-> "MatchFailedError", Args |-> a, Prefixes |-> labels]

\* What a lookup function of a shape may return for a bare key: (val, ok) and,
\* for the fallible shapes, err.  A hit returns the bare key (getKeyAsValue in
\* the README), which is the zero value "" for the key "a/".
Result(v, ok, e) == [val |-> v, ok |-> ok, err |-> e]

LookupResults(shape, p, bare) ==
    LET plain == {Result(ZeroVal, FALSE, NoErr), Result(bare, TRUE, NoErr)}
        failing == {Result(ZeroVal, FALSE, LookupErr(p, bare)),
                    Result(bare, TRUE, LookupErr(p, bare))}
    IN  IF shape \in {Fallible, ContextualFallible} THEN plain \cup failing
        ELSE IF shape \in {Plain, Contextual} THEN plain
        ELSE {}

-----------------------------------------------------------------------------
\* What a function returns to its caller: (any, error), or nothing yet.

Return(v, e) == [returns |-> TRUE, val |-> v, err |-> e]

Continue == [returns |-> FALSE, val |-> NilVal, err |-> NoErr]

IsSuccess(o) == o.returns /\ o.err = NoErr

IsNotFound(o) == o.returns /\ o.err.kind = "MatchFailedError"

IsFailure(o) == o.returns /\ o.err # NoErr /\ o.err.kind # "MatchFailedError"

\* Mutant: the labels are collected without duplicates.
prefixes_Distinct(m) ==
    LET labels == {p.label : p \in DOMAIN m}
    IN  [l \in labels |-> 1]

\* MultiLookup.prefixes: fmt.Sprintf("%s", k), the label without the separator,
\* of every key of the map.  The slice is in the map's iteration order, which
\* Go leaves unspecified, so it is kept up to order: as the bag of its elements.
prefixes(m) ==
    LET labels == {p.label : p \in DOMAIN m}
    IN  [l \in labels |-> Cardinality({p \in DOMAIN m : p.label = l})]

\* The registries (MultiLookup map values) and argument lists of the model.
Registries == UNION {[D -> Shapes] : D \in SUBSET PrefixUniverse}

ArgLists == UNION {[1..n -> KeyUniverse] : n \in 0..MaxArgs}

-----------------------------------------------------------------------------
VARIABLES
    registry,    \* m MultiLookup: a map from Prefix to the shape of its LookupFunc
    args,        \* the candidate keys passed to both FuncMapValue calls
    Ctx,         \* MultiLookupContext.Ctx: "nil", "live", or "done" (cancelled or expired)
    pc,          \* the embedding program: seq, conc, done; or validate, cvalidate, validated
    ret,         \* what the Plain/Fallible functions have returned so far (they are pure)
    mlValid,     \* the error MultiLookup.Validate returned
    mlcValid,    \* the error MultiLookupContext.Validate returned
    seqIdx,      \* MultiLookup.FuncMapValue: index of arg in the outer loop
    seqVisited,  \* ... the map entries the inner range has visited for this arg
    seqLog,      \* ... the lookup invocations made, in order
    seqOut,      \* ... what it returned
    cpc,         \* MultiLookupContext.FuncMapValue: idle, dispatch, collect, returned
    cIdx,        \* ... index of arg in the dispatch loop, then of promise in the collect loop
    cVisited,    \* ... the map entries the inner range has visited for this arg
    results,     \* ... results []chan result: per arg, the buffer and the closed flag
    tasks,       \* ... the goroutines started by `go func()`, and what their functions returned
    concLog,     \* ... the lookups called inline and the goroutines started, per arg index
    reads,       \* ... the receives done by the collect loop, in order: index and result
    concOut,     \* ... what it returned
    cancelled,   \* ... whether cancel() of the derived context has run
    panicked,    \* whether the process died of a runtime panic
    seqPrev,     \* what an earlier MultiLookup.FuncMapValue call with the same keys returned
    otherArgs,   \* the candidate keys of a second, simultaneous MultiLookupContext.FuncMapValue call
    other        \* ... its locals: cpc, cIdx, cVisited, results, tasks, reads, out, cancelled

vars == <<registry, args, Ctx, pc, ret, mlValid, mlcValid,
          seqIdx, seqVisited, seqLog, seqOut,
          cpc, cIdx, cVisited, results, tasks, concLog, reads,
          concOut, cancelled, panicked, seqPrev, otherArgs, other>>

inputs == <<registry, args, otherArgs>>

seqVars == <<seqIdx, seqVisited, seqLog, seqOut>>

concVars == <<cpc, cIdx, cVisited, results, tasks, concLog, reads,
              concOut, cancelled, panicked>>

\* The locals of the MultiLookupContext.FuncMapValue call, and its logs.
callVars == <<cpc, cIdx, cVisited, results, tasks, concLog, reads, concOut, cancelled>>

NotRun == [kind |-> "not run"]

\* The locals of a call that has not started.
NotCalled ==
    [cpc |-> "idle", cIdx |-> 1, cVisited |-> {}, results |-> <<>>, tasks |-> {},
     reads |-> <<>>, out |-> Continue, cancelled |-> FALSE]

\* MultiLookup.BindContext: the MultiLookupContext of a map and a context.  A
\* MultiLookupContext literal that sets no Ctx is BindContext(m, "nil").
BindContext(m, c) == [MultiLookup |-> m, Ctx |-> c]

\* The embedding program has built a registry and bound a context to it; it
\* goes on to resolve a list of candidate keys with both resolvers.
Init ==
    /\ registry \in Registries
    /\ args \in ArgLists
    /\ \E c \in {"nil", "live"} : Ctx = BindContext(registry, c).Ctx
    /\ pc = "seq"
    /\ ret = {}
    /\ mlValid = NotRun
    /\ mlcValid = NotRun
    /\ seqIdx = 1
    /\ seqVisited = {}
    /\ seqLog = <<>>
    /\ seqOut = Continue
    /\ cpc = "idle"
    /\ cIdx = 1
    /\ cVisited = {}
    /\ results = <<>>
    /\ tasks = {}
    /\ concLog = {}
    /\ reads = <<>>
    /\ concOut = Continue
    /\ cancelled = FALSE
    /\ panicked = FALSE
    /\ seqPrev = Continue
    /\ otherArgs = <<>>
    /\ other = NotCalled

-----------------------------------------------------------------------------
\* Lookup functions.  Plain and Fallible functions are pure: a second call
\* with the same bare key returns what the first returned.  Context-aware
\* functions may depend on the context and on time.

Returns(shape, p, bare) ==
    LET known == {r \in ret : r.p = p /\ r.bare = bare}
    IN  IF shape \in {Plain, Fallible} /\ known # {}
        THEN {r.res : r \in known}
        ELSE LookupResults(shape, p, bare)

Remember(shape, p, bare, res) ==
    IF shape \in {Plain, Fallible}
    THEN ret \cup {[p |-> p, bare |-> bare, res |-> res]}
    ELSE ret

\* An entry of a call's log: fn(suffix) called and returned res, or a goroutine
\* started that will call fn(ctx, suffix).
Invocation(i, p, bare, res) ==
    [idx |-> i, p |-> p, bare |-> bare, how |-> "call", res |-> res]

Started(i, p, bare) ==
    [idx |-> i, p |-> p, bare |-> bare, how |-> "go", res |-> Result(NilVal, FALSE, NoErr)]

-----------------------------------------------------------------------------
\* MultiLookup.Validate: the errors it may return (which offending entry it
\* meets first depends on the map's iteration order).  The embedding program
\* may validate a resolver any number of times.

\* Mutant: MultiLookup.Validate accepts the four shapes, as
\* MultiLookupContext.Validate does.
MultiLookupValidate_ContextualAccepted(m) ==
    IF DOMAIN m = {} THEN {ErrNoFunctionRegistered}
    ELSE LET bad == {p \in DOMAIN m : m[p] = Other}
         IN  IF bad = {} THEN {NoErr}
             ELSE {InvalidFunctionError("MultiLookup", p, "") : p \in bad}

\* Mutant: `return nil` sits inside the loop, after the first valid entry.
MultiLookupValidate_FirstEntryOnly(m) ==
    IF DOMAIN m = {} THEN {ErrNoFunctionRegistered}
    ELSE {IF m[p] \in {Plain, Fallible} THEN NoErr
          ELSE InvalidFunctionError("MultiLookup", p,
                   IF m[p] \in {Contextual, ContextualFallible}
                   THEN "consider calling BindContext(ctx)" ELSE "")
          : p \in DOMAIN m}

MultiLookupValidate(m) ==
    IF DOMAIN m = {} THEN {ErrNoFunctionRegistered}
    ELSE LET bad == {p \in DOMAIN m : m[p] \notin {Plain, Fallible}}
         IN  IF bad = {} THEN {NoErr}
             ELSE {InvalidFunctionError("MultiLookup", p,
                       IF m[p] \in {Contextual, ContextualFallible}
                       THEN "consider calling BindContext(ctx)" ELSE "")
                   : p \in bad}

Validate ==
    /\ pc \in {"validate", "validated"}
    /\ \E e \in MultiLookupValidate(registry) : mlValid' = e
    /\ pc' = "cvalidate"
    /\ UNCHANGED <<inputs, seqPrev, other, Ctx, ret, mlcValid, seqVars, concVars>>

-----------------------------------------------------------------------------
\* MultiLookup.FuncMapValue, one step per matching map entry.

\* Mutants of the switch.  An error is treated as a miss:
SeqSwitch_SkipError(p, shape, res) ==
    IF shape \in {Plain, Fallible}
    THEN IF res.ok /\ res.err = NoErr THEN Return(res.val, NoErr) ELSE Continue
    ELSE Return(NilVal, InvalidFunctionError("MultiLookup", p,
                                             "consider calling Validate()"))

\* ... an empty value is treated as not found:
SeqSwitch_EmptyIsAbsent(p, shape, res) ==
    IF shape \in {Plain, Fallible}
    THEN IF res.err # NoErr THEN Return(NilVal, res.err)
         ELSE IF res.ok /\ res.val # ZeroVal THEN Return(res.val, NoErr) ELSE Continue
    ELSE Return(NilVal, InvalidFunctionError("MultiLookup", p,
                                             "consider calling Validate()"))

\* ... the first miss ends the call with MatchFailedError:
SeqSwitch_MissAborts(p, shape, res) ==
    IF shape \in {Plain, Fallible}
    THEN IF res.err # NoErr THEN Return(NilVal, res.err)
         ELSE IF res.ok THEN Return(res.val, NoErr)
         ELSE Return(NilVal, MatchFailedError(args, prefixes(registry)))
    ELSE Return(NilVal, InvalidFunctionError("MultiLookup", p,
                                             "consider calling Validate()"))

\* ... the Fallible case lacks its `if ok { return val, nil }`:
SeqSwitch_FallibleFallsThrough(p, shape, res) ==
    IF shape = Plain
    THEN IF res.ok THEN Return(res.val, NoErr) ELSE Continue
    ELSE IF shape = Fallible
    THEN IF res.err # NoErr THEN Return(NilVal, res.err) ELSE Continue
    ELSE Return(NilVal, InvalidFunctionError("MultiLookup", p,
                                             "consider calling Validate()"))

\* Mutant: the Fallible case tests ok before err.
SeqSwitch_FoundBeforeError(p, shape, res) ==
    IF shape = Plain
    THEN IF res.ok THEN Return(res.val, NoErr) ELSE Continue
    ELSE IF shape = Fallible
    THEN IF res.ok THEN Return(res.val, NoErr)
         ELSE IF res.err # NoErr THEN Return(NilVal, res.err) ELSE Continue
    ELSE Return(NilVal, InvalidFunctionError("MultiLookup", p,
                                             "consider calling Validate()"))

\* Mutant: the default case of the switch is missing, an entry of another
\* shape is passed over.
SeqSwitch_InvalidSkipped(p, shape, res) ==
    IF shape = Plain
    THEN IF res.ok THEN Return(res.val, NoErr) ELSE Continue
    ELSE IF shape = Fallible
    THEN IF res.err # NoErr THEN Return(NilVal, res.err)
         ELSE IF res.ok THEN Return(res.val, NoErr) ELSE Continue
    ELSE Continue

\* The switch on fn's type: what the call does with a matching entry, given
\* what the entry's function returned (res is not used for the other shapes).
SeqSwitch(p, shape, res) ==
    IF shape = Plain
    THEN IF res.ok THEN Return(res.val, NoErr) ELSE Continue
    ELSE IF shape = Fallible
    THEN IF res.err # NoErr THEN Return(NilVal, res.err)
         ELSE IF res.ok THEN Return(res.val, NoErr) ELSE Continue
    ELSE Return(NilVal, InvalidFunctionError("MultiLookup", p,
                                             "consider calling Validate()"))

\* The entries the inner range has yet to visit that match the current arg
\* (entries that do not match are skipped by `continue`).
SeqMatching ==
    {p \in DOMAIN registry \ seqVisited : Match(p, args[seqIdx])}

\* Mutant: the lookup is started with a go statement and the loop goes on
\* without its result.
SeqEntry_Async ==
    /\ pc = "seq"
    /\ seqIdx <= Len(args)
    /\ \E p \in SeqMatching :
         LET shape == registry[p]
             bare == Strip(p, args[seqIdx])
         IN  /\ seqLog' = Append(seqLog, Started(seqIdx, p, bare))
             /\ seqOut' = Continue
             /\ seqVisited' = seqVisited \cup {p}
             /\ UNCHANGED <<ret, pc>>
    /\ UNCHANGED <<inputs, seqPrev, other, Ctx, mlValid, mlcValid, seqIdx, concVars>>

SeqEntry ==
    /\ pc = "seq"
    /\ seqIdx <= Len(args)
    /\ \E p \in SeqMatching :
         LET shape == registry[p]
             bare == Strip(p, args[seqIdx])
             invoked == shape \in {Plain, Fallible}
         IN  \E res \in IF invoked THEN Returns(shape, p, bare)
                        ELSE {Result(NilVal, FALSE, NoErr)} :
               LET o == SeqSwitch(p, shape, res)
               IN  /\ seqLog' = IF invoked
                                THEN Append(seqLog, Invocation(seqIdx, p, bare, res))
                                ELSE seqLog
                   /\ ret' = IF invoked THEN Remember(shape, p, bare, res) ELSE ret
                   /\ seqOut' = o
                   /\ seqVisited' = seqVisited \cup {p}
                   /\ pc' = IF o.returns THEN "conc" ELSE pc
    /\ UNCHANGED <<inputs, seqPrev, other, Ctx, mlValid, mlcValid, seqIdx, concVars>>

SeqNextArg ==
    /\ pc = "seq"
    /\ seqIdx <= Len(args)
    /\ SeqMatching = {}
    /\ seqIdx' = seqIdx + 1
    /\ seqVisited' = {}
    /\ UNCHANGED <<inputs, seqPrev, other, Ctx, pc, ret, mlValid, mlcValid, seqLog, seqOut, concVars>>

SeqNotFound ==
    /\ pc = "seq"
    /\ seqIdx > Len(args)
    /\ seqOut' = Return(NilVal, MatchFailedError(args, prefixes(registry)))
    /\ pc' = "conc"
    /\ UNCHANGED <<inputs, seqPrev, other, Ctx, ret, mlValid, mlcValid, seqIdx, seqVisited, seqLog,
                   concVars>>

-----------------------------------------------------------------------------
\* Mutant: the len(m.MultiLookup) == 0 check is missing.
MultiLookupContextValidate_NoEmptyCheck(c, m) ==
    IF c = "nil" THEN {ErrContextUntypedNil}
    ELSE LET bad == {p \in DOMAIN m : m[p] = Other}
         IN  IF bad = {} THEN {NoErr}
             ELSE {InvalidFunctionError("MultiLookupContext", p, "") : p \in bad}

\* Mutant: the m.Ctx == nil check is missing.
MultiLookupContextValidate_NoCtxCheck(c, m) ==
    IF DOMAIN m = {} THEN {ErrNoFunctionRegistered}
    ELSE LET bad == {p \in DOMAIN m : m[p] = Other}
         IN  IF bad = {} THEN {NoErr}
             ELSE {InvalidFunctionError("MultiLookupContext", p, "") : p \in bad}

\* Mutant: the switch on the function's type is missing.
MultiLookupContextValidate_NoShapeCheck(c, m) ==
    IF c = "nil" THEN {ErrContextUntypedNil}
    ELSE IF DOMAIN m = {} THEN {ErrNoFunctionRegistered}
    ELSE {NoErr}

\* MultiLookupContext.Validate: the errors it may return.
MultiLookupContextValidate(c, m) ==
    IF c = "nil" THEN {ErrContextUntypedNil}
    ELSE IF DOMAIN m = {} THEN {ErrNoFunctionRegistered}
    ELSE LET bad == {p \in DOMAIN m : m[p] = Other}
         IN  IF bad = {} THEN {NoErr}
             ELSE {InvalidFunctionError("MultiLookupContext", p, "") : p \in bad}

ValidateContext ==
    /\ pc = "cvalidate"
    /\ \E e \in MultiLookupContextValidate(Ctx, registry) : mlcValid' = e
    /\ pc' = "validated"
    /\ UNCHANGED <<inputs, seqPrev, other, Ctx, ret, mlValid, seqVars, concVars>>

-----------------------------------------------------------------------------
\* MultiLookupContext.FuncMapValue.

\* ctx, cancel := context.WithCancel(m.Ctx): the derived context every
\* goroutine of the call is given is done once cancel() has run or the parent
\* is done.
DerivedDone == cancelled \/ Ctx = "done"

Chan == [buf |-> <<>>, closed |-> FALSE]

\* Mutant: a nil m.Ctx is replaced by context.Background() instead of reaching
\* context.WithCancel.
ConcStart_NilCtxRuns ==
    /\ pc = "conc"
    /\ cpc = "idle"
    /\ ~panicked
    /\ results' = [i \in 1..Len(args) |-> Chan]
    /\ panicked' = panicked
    /\ cpc' = IF Len(args) = 0 THEN "collect" ELSE "dispatch"
    /\ UNCHANGED <<inputs, seqPrev, other, Ctx, pc, ret, mlValid, mlcValid, seqVars,
                   cIdx, cVisited, tasks, concLog, reads, concOut, cancelled>>

\* make the channels, then context.WithCancel(m.Ctx), which panics on a nil
\* parent.
ConcStart ==
    /\ pc = "conc"
    /\ cpc = "idle"
    /\ ~panicked
    /\ results' = [i \in 1..Len(args) |-> Chan]
    /\ IF Ctx = "nil"
       THEN /\ panicked' = TRUE
            /\ cpc' = cpc
       ELSE /\ panicked' = panicked
            /\ cpc' = IF Len(args) = 0 THEN "collect" ELSE "dispatch"
    /\ UNCHANGED <<inputs, seqPrev, other, Ctx, pc, ret, mlValid, mlcValid, seqVars,
                   cIdx, cVisited, tasks, concLog, reads, concOut, cancelled>>

ConcMatching ==
    {p \in DOMAIN registry \ cVisited : Match(p, args[cIdx])}

\* promise <- res on a channel of capacity 1: it panics on a closed channel,
\* blocks while the buffer is full, and otherwise completes at once.
SendTo(ch) ==
    IF ch.closed THEN "panic" ELSE IF Len(ch.buf) >= 1 THEN "block" ELSE "ok"

\* promise <- res; close(promise).  The two are one step: only another sender
\* to the same channel can tell them apart, and it panics either way (blocked
\* on the full buffer until the close, or finding the channel closed).
SendAndClose(ch, res) == [buf |-> Append(ch.buf, res), closed |-> TRUE]

Task(i, p, shape, bare) ==
    [idx |-> i, p |-> p, shape |-> shape, bare |-> bare, at |-> "running",
     res |-> Result(NilVal, FALSE, NoErr)]

\* Mutant: every recognized shape is started in a goroutine, the Plain and
\* Fallible ones too.
ConcEntry_AllAsync ==
    /\ pc = "conc"
    /\ cpc = "dispatch"
    /\ ~panicked
    /\ cIdx <= Len(args)
    /\ \E p \in ConcMatching :
         LET shape == registry[p]
             bare == Strip(p, args[cIdx])
             moves == ConcMatching = {p} /\ shape # Other
             onward == IF moves /\ cIdx = Len(args) THEN "collect" ELSE "dispatch"
         IN  /\ cVisited' = IF moves THEN {} ELSE cVisited \cup {p}
             /\ cIdx' = IF ~moves THEN cIdx
                        ELSE IF cIdx = Len(args) THEN 1 ELSE cIdx + 1
             /\ IF shape # Other
                THEN /\ tasks' = tasks \cup {Task(cIdx, p, shape, bare)}
                     /\ concLog' = concLog \cup {Started(cIdx, p, bare)}
                     /\ cpc' = onward
                     /\ UNCHANGED <<ret, results, concOut, cancelled, pc, panicked>>
                ELSE /\ concOut' = Return(NilVal,
                            InvalidFunctionError("MultiLookupContext", p,
                                                 "unexpected error! it might be a bug"))
                     /\ cancelled' = TRUE
                     /\ cpc' = "returned"
                     /\ pc' = "done"
                     /\ UNCHANGED <<ret, results, tasks, concLog, panicked>>
    /\ UNCHANGED <<inputs, seqPrev, other, Ctx, mlValid, mlcValid, seqVars, reads>>

\* Mutant: dispatch stops at an inline result that decides the call (an error
\* or found=true) and goes straight to the collect loop.
ConcEntry_ShortCircuit ==
    /\ pc = "conc"
    /\ cpc = "dispatch"
    /\ ~panicked
    /\ cIdx <= Len(args)
    /\ \E p \in ConcMatching :
         LET shape == registry[p]
             bare == Strip(p, args[cIdx])
             dies == shape \in {Plain, Fallible} /\ SendTo(results[cIdx]) = "panic"
             moves == ConcMatching = {p} /\ shape # Other /\ ~dies
             onward == IF moves /\ cIdx = Len(args) THEN "collect" ELSE "dispatch"
             next == IF ~moves THEN cIdx
                     ELSE IF cIdx = Len(args) THEN 1 ELSE cIdx + 1
         IN  /\ cVisited' = IF moves THEN {} ELSE cVisited \cup {p}
             /\ IF shape \in {Plain, Fallible}
                THEN /\ SendTo(results[cIdx]) # "block"
                     /\ \E res \in Returns(shape, p, bare) :
                          /\ concLog' = concLog \cup {Invocation(cIdx, p, bare, res)}
                          /\ ret' = Remember(shape, p, bare, res)
                          /\ IF SendTo(results[cIdx]) = "ok"
                             THEN /\ results' = [results EXCEPT
                                                   ![cIdx] = SendAndClose(@, res)]
                                  /\ UNCHANGED panicked
                             ELSE /\ panicked' = TRUE
                                  /\ UNCHANGED results
                          /\ IF (res.err # NoErr \/ res.ok) /\ ~dies
                             THEN cpc' = "collect" /\ cIdx' = 1
                             ELSE cpc' = onward /\ cIdx' = next
                     /\ UNCHANGED <<tasks, concOut, cancelled, pc>>
                ELSE IF shape \in {Contextual, ContextualFallible}
                THEN /\ tasks' = tasks \cup {Task(cIdx, p, shape, bare)}
                     /\ concLog' = concLog \cup {Started(cIdx, p, bare)}
                     /\ cpc' = onward
                     /\ cIdx' = next
                     /\ UNCHANGED <<ret, results, concOut, cancelled, pc, panicked>>
                ELSE /\ concOut' = Return(NilVal,
                            InvalidFunctionError("MultiLookupContext", p,
                                                 "unexpected error! it might be a bug"))
                     /\ cancelled' = TRUE
                     /\ cpc' = "returned"
                     /\ pc' = "done"
                     /\ cIdx' = next
                     /\ UNCHANGED <<ret, results, tasks, concLog, panicked>>
    /\ UNCHANGED <<inputs, seqPrev, other, Ctx, mlValid, mlcValid, seqVars, reads>>

\* The dispatch loop meets a matching entry: a Plain/Fallible function is called
\* and its result sent to the arg's channel, which is then closed; a
\* context-aware function is started in a goroutine; any other shape returns,
\* and the deferred cancel() runs.  After the last matching entry of an arg the
\* loop goes on to the next arg, or to the collect loop.
ConcEntry ==
    /\ pc = "conc"
    /\ cpc = "dispatch"
    /\ ~panicked
    /\ cIdx <= Len(args)
    /\ \E p \in ConcMatching :
         LET shape == registry[p]
             bare == Strip(p, args[cIdx])
             dies == shape \in {Plain, Fallible} /\ SendTo(results[cIdx]) = "panic"
             moves == ConcMatching = {p} /\ shape # Other /\ ~dies
             onward == IF moves /\ cIdx = Len(args) THEN "collect" ELSE "dispatch"
         IN  /\ cVisited' = IF moves THEN {} ELSE cVisited \cup {p}
             /\ cIdx' = IF ~moves THEN cIdx
                        ELSE IF cIdx = Len(args) THEN 1 ELSE cIdx + 1
             /\ IF shape \in {Plain, Fallible}
                THEN /\ SendTo(results[cIdx]) # "block"
                     /\ \E res \in Returns(shape, p, bare) :
                          /\ concLog' = concLog \cup {Invocation(cIdx, p, bare, res)}
                          /\ ret' = Remember(shape, p, bare, res)
                          /\ IF SendTo(results[cIdx]) = "ok"
                             THEN /\ results' = [results EXCEPT
                                                   ![cIdx] = SendAndClose(@, res)]
                                  /\ UNCHANGED panicked
                             ELSE /\ panicked' = TRUE
                                  /\ UNCHANGED results
                     /\ cpc' = onward
                     /\ UNCHANGED <<tasks, concOut, cancelled, pc>>
                ELSE IF shape \in {Contextual, ContextualFallible}
                THEN /\ tasks' = tasks \cup {Task(cIdx, p, shape, bare)}
                     /\ concLog' = concLog \cup {Started(cIdx, p, bare)}
                     /\ cpc' = onward
                     /\ UNCHANGED <<ret, results, concOut, cancelled, pc, panicked>>
                ELSE /\ concOut' = Return(NilVal,
                            InvalidFunctionError("MultiLookupContext", p,
                                                 "unexpected error! it might be a bug"))
                     /\ cancelled' = TRUE
                     /\ cpc' = "returned"
                     /\ pc' = "done"
                     /\ UNCHANGED <<ret, results, tasks, concLog, panicked>>
    /\ UNCHANGED <<inputs, seqPrev, other, Ctx, mlValid, mlcValid, seqVars, reads>>

\* No entry matches this arg: the next arg, or on to the collect loop.
ConcNextArg ==
    /\ pc = "conc"
    /\ cpc = "dispatch"
    /\ ~panicked
    /\ cIdx <= Len(args)
    /\ ConcMatching = {}
    /\ cVisited' = {}
    /\ IF cIdx = Len(args)
       THEN cIdx' = 1 /\ cpc' = "collect"
       ELSE cIdx' = cIdx + 1 /\ cpc' = cpc
    /\ UNCHANGED <<inputs, seqPrev, other, Ctx, pc, ret, mlValid, mlcValid, seqVars,
                   results, tasks, concLog, reads, concOut, cancelled, panicked>>

\* A goroutine: its function returns, the result is sent and the channel closed.
\* The goroutine runs on after FuncMapValue has returned.
Goroutine ==
    /\ ~panicked
    /\ \E t \in tasks :
         /\ t.at = "running"
         /\ SendTo(results[t.idx]) # "block"
         /\ \E res \in LookupResults(t.shape, t.p, t.bare) :
              IF SendTo(results[t.idx]) = "ok"
              THEN /\ results' = [results EXCEPT ![t.idx] = SendAndClose(@, res)]
                   /\ tasks' = (tasks \ {t}) \cup {[t EXCEPT !.at = "done", !.res = res]}
                   /\ UNCHANGED panicked
              ELSE /\ panicked' = TRUE
                   /\ UNCHANGED <<results, tasks>>
    /\ UNCHANGED <<inputs, seqPrev, other, Ctx, pc, ret, mlValid, mlcValid, seqVars,
                   cpc, cIdx, cVisited, concLog, reads, concOut, cancelled>>

\* Mutant: the collect loop treats an error as a miss.
CollectSwitch_SkipError(res) ==
    IF res.ok /\ res.err = NoErr THEN Return(res.val, NoErr) ELSE Continue

\* Mutant: the collect loop lacks its `if res.ok { return res.val, nil }`.
CollectSwitch_FoundIgnored(res) ==
    IF res.err # NoErr THEN Return(NilVal, res.err) ELSE Continue

\* Mutant: the collect loop returns res.val next to res.err.
CollectSwitch_ValueWithError(res) ==
    IF res.err # NoErr THEN Return(res.val, res.err)
    ELSE IF res.ok THEN Return(res.val, NoErr)
    ELSE Continue

\* What the collect loop does with a received result.
CollectSwitch(res) ==
    IF res.err # NoErr THEN Return(NilVal, res.err)
    ELSE IF res.ok THEN Return(res.val, NoErr)
    ELSE Continue

\* Mutant: a receive that never waits (a select with a default case).
CanReceive_NoWait(ch) == TRUE

\* A receive completes when the buffer holds a value, or when the channel is
\* closed and empty (it then yields the zero result); otherwise it blocks.
CanReceive(ch) == Len(ch.buf) > 0 \/ ch.closed

Received(ch) == IF Len(ch.buf) > 0 THEN Head(ch.buf) ELSE Result(NilVal, FALSE, NoErr)

\* Mutant: cancel() runs after every receive rather than on return.
ConcCollect_CancelsEarly ==
    /\ pc = "conc"
    /\ cpc = "collect"
    /\ ~panicked
    /\ cIdx <= Len(args)
    /\ CanReceive(results[cIdx])
    /\ LET res == Received(results[cIdx])
           o == CollectSwitch(res)
       IN  /\ results' = [results EXCEPT ![cIdx].buf = <<>>]
           /\ reads' = Append(reads, [idx |-> cIdx, res |-> res])
           /\ concOut' = o
           /\ cancelled' = TRUE
           /\ IF o.returns
              THEN /\ cpc' = "returned"
                   /\ pc' = "done"
                   /\ cIdx' = cIdx
              ELSE /\ cIdx' = cIdx + 1
                   /\ UNCHANGED <<cpc, pc>>
    /\ UNCHANGED <<inputs, seqPrev, other, Ctx, ret, mlValid, mlcValid, seqVars,
                   cVisited, tasks, concLog, panicked>>

\* Mutant: the select of the collect loop has a `case <-ctx.Done()` that
\* returns ctx.Err().
ConcCollect_SelectsDone ==
    /\ pc = "conc"
    /\ cpc = "collect"
    /\ ~panicked
    /\ cIdx <= Len(args)
    /\ \/ /\ CanReceive(results[cIdx])
          /\ LET res == Received(results[cIdx])
                 o == CollectSwitch(res)
             IN  /\ results' = [results EXCEPT ![cIdx].buf = <<>>]
                 /\ reads' = Append(reads, [idx |-> cIdx, res |-> res])
                 /\ concOut' = o
                 /\ IF o.returns
                    THEN /\ cancelled' = TRUE
                         /\ cpc' = "returned"
                         /\ pc' = "done"
                         /\ cIdx' = cIdx
                    ELSE /\ cIdx' = cIdx + 1
                         /\ UNCHANGED <<cancelled, cpc, pc>>
       \/ /\ DerivedDone
          /\ concOut' = Return(NilVal, [kind |-> "context canceled"])
          /\ cancelled' = TRUE
          /\ cpc' = "returned"
          /\ pc' = "done"
          /\ UNCHANGED <<results, reads, cIdx>>
    /\ UNCHANGED <<inputs, seqPrev, other, Ctx, ret, mlValid, mlcValid, seqVars,
                   cVisited, tasks, concLog, panicked>>

ConcCollect ==
    /\ pc = "conc"
    /\ cpc = "collect"
    /\ ~panicked
    /\ cIdx <= Len(args)
    /\ CanReceive(results[cIdx])
    /\ LET res == Received(results[cIdx])
           o == CollectSwitch(res)
       IN  /\ results' = [results EXCEPT ![cIdx].buf = <<>>]
           /\ reads' = Append(reads, [idx |-> cIdx, res |-> res])
           /\ concOut' = o
           /\ IF o.returns
              THEN /\ cancelled' = TRUE
                   /\ cpc' = "returned"
                   /\ pc' = "done"
                   /\ cIdx' = cIdx
              ELSE /\ cIdx' = cIdx + 1
                   /\ UNCHANGED <<cancelled, cpc, pc>>
    /\ UNCHANGED <<inputs, seqPrev, other, Ctx, ret, mlValid, mlcValid, seqVars,
                   cVisited, tasks, concLog, panicked>>

\* Mutant: cancel() is called on the paths that return from the collect loop's
\* switch instead of being deferred.
ConcNotFound_NoCancel ==
    /\ pc = "conc"
    /\ cpc = "collect"
    /\ ~panicked
    /\ cIdx > Len(args)
    /\ concOut' = Return(NilVal, MatchFailedError(args, prefixes(registry)))
    /\ cpc' = "returned"
    /\ pc' = "done"
    /\ UNCHANGED <<inputs, seqPrev, other, Ctx, ret, mlValid, mlcValid, seqVars, cancelled,
                   cIdx, cVisited, results, tasks, concLog, reads, panicked>>

ConcNotFound ==
    /\ pc = "conc"
    /\ cpc = "collect"
    /\ ~panicked
    /\ cIdx > Len(args)
    /\ concOut' = Return(NilVal, MatchFailedError(args, prefixes(registry)))
    /\ cancelled' = TRUE
    /\ cpc' = "returned"
    /\ pc' = "done"
    /\ UNCHANGED <<inputs, seqPrev, other, Ctx, ret, mlValid, mlcValid, seqVars,
                   cIdx, cVisited, results, tasks, concLog, reads, panicked>>

-----------------------------------------------------------------------------
\* A second MultiLookupContext.FuncMapValue call on the same resolver, made by
\* another goroutine of the embedding program while the first is under way.
\* Its channels, its derived context and its loop variables are its own
\* locals; the map, m.Ctx and the lookup functions are shared, and a panic
\* ends the process for both calls.

\* The longest candidate-key list of the second call.
MaxOtherArgs == 1

OtherArgLists == UNION {[1..n -> KeyUniverse] : n \in 0..MaxOtherArgs}

OtherStart ==
    /\ pc \in {"conc", "done"}
    /\ other.cpc = "idle"
    /\ ~panicked
    /\ IF Ctx = "nil"
       THEN /\ panicked' = TRUE
            /\ other' = [other EXCEPT !.results = [i \in 1..Len(otherArgs) |-> Chan]]
       ELSE /\ panicked' = panicked
            /\ other' = [other EXCEPT
                           !.results = [i \in 1..Len(otherArgs) |-> Chan],
                           !.cpc = IF Len(otherArgs) = 0 THEN "collect" ELSE "dispatch"]
    /\ UNCHANGED <<inputs, seqPrev, Ctx, pc, ret, mlValid, mlcValid, seqVars, callVars>>

OtherMatching ==
    {p \in DOMAIN registry \ other.cVisited : Match(p, otherArgs[other.cIdx])}

OtherEntry ==
    /\ pc \in {"conc", "done"}
    /\ other.cpc = "dispatch"
    /\ ~panicked
    /\ other.cIdx <= Len(otherArgs)
    /\ \E p \in OtherMatching :
         LET i == other.cIdx
             shape == registry[p]
             bare == Strip(p, otherArgs[i])
             dies == shape \in {Plain, Fallible} /\ SendTo(other.results[i]) = "panic"
             moves == OtherMatching = {p} /\ shape # Other /\ ~dies
             onward == IF moves /\ i = Len(otherArgs) THEN "collect" ELSE "dispatch"
             visited == IF moves THEN {} ELSE other.cVisited \cup {p}
             index == IF ~moves THEN i ELSE IF i = Len(otherArgs) THEN 1 ELSE i + 1
         IN  IF shape \in {Plain, Fallible}
             THEN /\ SendTo(other.results[i]) # "block"
                  /\ \E res \in Returns(shape, p, bare) :
                       /\ ret' = Remember(shape, p, bare, res)
                       /\ IF dies
                          THEN /\ panicked' = TRUE
                               /\ other' = [other EXCEPT !.cVisited = visited]
                          ELSE /\ panicked' = panicked
                               /\ other' = [other EXCEPT
                                              !.cVisited = visited,
                                              !.cIdx = index,
                                              !.cpc = onward,
                                              !.results[i] = SendAndClose(@, res)]
             ELSE IF shape \in {Contextual, ContextualFallible}
             THEN /\ other' = [other EXCEPT
                                 !.cVisited = visited,
                                 !.cIdx = index,
                                 !.cpc = onward,
                                 !.tasks = @ \cup {Task(i, p, shape, bare)}]
                  /\ UNCHANGED <<ret, panicked>>
             ELSE /\ other' = [other EXCEPT
                                 !.cVisited = visited,
                                 !.out = Return(NilVal,
                                     InvalidFunctionError("MultiLookupContext", p,
                                         "unexpected error! it might be a bug")),
                                 !.cancelled = TRUE,
                                 !.cpc = "returned"]
                  /\ UNCHANGED <<ret, panicked>>
    /\ UNCHANGED <<inputs, seqPrev, Ctx, pc, mlValid, mlcValid, seqVars, callVars>>

OtherNextArg ==
    /\ pc \in {"conc", "done"}
    /\ other.cpc = "dispatch"
    /\ ~panicked
    /\ other.cIdx <= Len(otherArgs)
    /\ OtherMatching = {}
    /\ other' = IF other.cIdx = Len(otherArgs)
                THEN [other EXCEPT !.cVisited = {}, !.cIdx = 1, !.cpc = "collect"]
                ELSE [other EXCEPT !.cVisited = {}, !.cIdx = @ + 1]
    /\ UNCHANGED <<inputs, seqPrev, Ctx, pc, ret, mlValid, mlcValid, seqVars, callVars, panicked>>

OtherGoroutine ==
    /\ ~panicked
    /\ \E t \in other.tasks :
         /\ t.at = "running"
         /\ SendTo(other.results[t.idx]) # "block"
         /\ \E res \in LookupResults(t.shape, t.p, t.bare) :
              IF SendTo(other.results[t.idx]) = "ok"
              THEN /\ other' = [other EXCEPT
                                  !.results[t.idx] = SendAndClose(@, res),
                                  !.tasks = (@ \ {t})
                                      \cup {[t EXCEPT !.at = "done", !.res = res]}]
                   /\ UNCHANGED panicked
              ELSE /\ panicked' = TRUE
                   /\ UNCHANGED other
    /\ UNCHANGED <<inputs, seqPrev, Ctx, pc, ret, mlValid, mlcValid, seqVars, callVars>>

OtherCollect ==
    /\ other.cpc = "collect"
    /\ ~panicked
    /\ other.cIdx <= Len(otherArgs)
    /\ CanReceive(other.results[other.cIdx])
    /\ LET i == other.cIdx
           res == Received(other.results[i])
           o == CollectSwitch(res)
       IN  other' = IF o.returns
                    THEN [other EXCEPT
                            !.results[i].buf = <<>>,
                            !.reads = Append(@, [idx |-> i, res |-> res]),
                            !.out = o,
                            !.cancelled = TRUE,
                            !.cpc = "returned"]
                    ELSE [other EXCEPT
                            !.results[i].buf = <<>>,
                            !.reads = Append(@, [idx |-> i, res |-> res]),
                            !.out = o,
                            !.cIdx = i + 1]
    /\ UNCHANGED <<inputs, seqPrev, Ctx, pc, ret, mlValid, mlcValid, seqVars, callVars, panicked>>

OtherNotFound ==
    /\ other.cpc = "collect"
    /\ ~panicked
    /\ other.cIdx > Len(otherArgs)
    /\ other' = [other EXCEPT
                   !.out = Return(NilVal, MatchFailedError(otherArgs, prefixes(registry))),
                   !.cancelled = TRUE,
                   !.cpc = "returned"]
    /\ UNCHANGED <<inputs, seqPrev, Ctx, pc, ret, mlValid, mlcValid, seqVars, callVars, panicked>>

-----------------------------------------------------------------------------

Next ==
    \/ SeqEntry
    \/ SeqNextArg
    \/ SeqNotFound
    \/ ConcStart
    \/ ConcEntry
    \/ ConcNextArg
    \/ Goroutine
    \/ ConcCollect
    \/ ConcNotFound

Spec == Init /\ [][Next]_vars

\* The steps of the goroutine that calls FuncMapValue.
Resolver ==
    \/ SeqEntry
    \/ SeqNextArg
    \/ SeqNotFound
    \/ ConcStart
    \/ ConcEntry
    \/ ConcNextArg
    \/ ConcCollect
    \/ ConcNotFound

\* The Go scheduler runs every runnable goroutine, and every lookup function
\* that was called returns.
FairSpec == Init /\ [][Next]_vars /\ WF_vars(Resolver) /\ WF_vars(Goroutine)

\* The embedding program calls MultiLookup.FuncMapValue a second time with the
\* same keys, after the first call has returned (a template executed twice).
SeqAgain ==
    /\ pc = "conc"
    /\ cpc = "idle"
    /\ seqOut.returns
    /\ ~seqPrev.returns
    /\ seqPrev' = seqOut
    /\ seqOut' = Continue
    /\ seqIdx' = 1
    /\ seqVisited' = {}
    /\ seqLog' = <<>>
    /\ pc' = "seq"
    /\ UNCHANGED <<inputs, other, Ctx, ret, mlValid, mlcValid, concVars>>

NextRepeat ==
    \/ SeqEntry
    \/ SeqNextArg
    \/ SeqNotFound
    \/ SeqAgain

RepeatSpec == Init /\ [][NextRepeat]_vars

\* The owner of the bound context cancels it, or its deadline passes, at any
\* time before or during the concurrent call.
ParentCancel ==
    /\ Ctx = "live"
    /\ Ctx' = "done"
    /\ UNCHANGED <<inputs, seqPrev, other, pc, ret, mlValid, mlcValid, seqVars, concVars>>

\* The embedding program calls MultiLookupContext.FuncMapValue only.
InitConc ==
    /\ registry \in Registries
    /\ args \in ArgLists
    /\ \E c \in {"nil", "live"} : Ctx = BindContext(registry, c).Ctx
    /\ pc = "conc"
    /\ ret = {}
    /\ mlValid = NotRun
    /\ mlcValid = NotRun
    /\ seqIdx = 1
    /\ seqVisited = {}
    /\ seqLog = <<>>
    /\ seqOut = Continue
    /\ cpc = "idle"
    /\ cIdx = 1
    /\ cVisited = {}
    /\ results = <<>>
    /\ tasks = {}
    /\ concLog = {}
    /\ reads = <<>>
    /\ concOut = Continue
    /\ cancelled = FALSE
    /\ panicked = FALSE
    /\ seqPrev = Continue
    /\ otherArgs = <<>>
    /\ other = NotCalled

NextCancel ==
    \/ ConcStart
    \/ ConcEntry
    \/ ConcNextArg
    \/ Goroutine
    \/ ConcCollect
    \/ ConcNotFound
    \/ ParentCancel

CancelSpec == InitConc /\ [][NextCancel]_vars

\* Two goroutines of the embedding program each call FuncMapValue of the same
\* MultiLookupContext, each with its own candidate keys.
InitTwoCalls ==
    /\ registry \in Registries
    /\ args \in ArgLists
    /\ otherArgs \in OtherArgLists
    /\ \E c \in {"nil", "live"} : Ctx = BindContext(registry, c).Ctx
    /\ pc = "conc"
    /\ ret = {}
    /\ mlValid = NotRun
    /\ mlcValid = NotRun
    /\ seqIdx = 1
    /\ seqVisited = {}
    /\ seqLog = <<>>
    /\ seqOut = Continue
    /\ cpc = "idle"
    /\ cIdx = 1
    /\ cVisited = {}
    /\ results = <<>>
    /\ tasks = {}
    /\ concLog = {}
    /\ reads = <<>>
    /\ concOut = Continue
    /\ cancelled = FALSE
    /\ panicked = FALSE
    /\ seqPrev = Continue
    /\ other = NotCalled

NextTwoCalls ==
    \/ ConcStart
    \/ ConcEntry
    \/ ConcNextArg
    \/ Goroutine
    \/ ConcCollect
    \/ ConcNotFound
    \/ OtherStart
    \/ OtherEntry
    \/ OtherNextArg
    \/ OtherGoroutine
    \/ OtherCollect
    \/ OtherNotFound

TwoCallsSpec == InitTwoCalls /\ [][NextTwoCalls]_vars

\* The embedding program validates both resolvers instead.
InitValidate ==
    /\ registry \in Registries
    /\ args \in ArgLists
    /\ \E c \in {"nil", "live"} : Ctx = BindContext(registry, c).Ctx
    /\ pc = "validate"
    /\ ret = {}
    /\ mlValid = NotRun
    /\ mlcValid = NotRun
    /\ seqIdx = 1
    /\ seqVisited = {}
    /\ seqLog = <<>>
    /\ seqOut = Continue
    /\ cpc = "idle"
    /\ cIdx = 1
    /\ cVisited = {}
    /\ results = <<>>
    /\ tasks = {}
    /\ concLog = {}
    /\ reads = <<>>
    /\ concOut = Continue
    /\ cancelled = FALSE
    /\ panicked = FALSE
    /\ seqPrev = Continue
    /\ otherArgs = <<>>
    /\ other = NotCalled

NextValidate ==
    \/ Validate
    \/ ValidateContext

ValidateSpec == InitValidate /\ [][NextValidate]_vars

-----------------------------------------------------------------------------
\* Properties.

\* The registry entries whose prefix matches the i-th candidate key.
Matching(i) == {p \in DOMAIN registry : Match(p, args[i])}

\* Every candidate key is routed to exactly one entry, of a shape the
\* concurrent resolver runs; or to at most one entry.
RoutedOnce ==
    \A i \in DOMAIN args :
        /\ Cardinality(Matching(i)) = 1
        /\ \A p \in Matching(i) : registry[p] # Other

RoutedAtMostOnce ==
    \A i \in DOMAIN args :
        /\ Cardinality(Matching(i)) <= 1
        /\ \A p \in Matching(i) : registry[p] # Other

\* What the lookups made for the i-th key by the concurrent call have returned
\* so far: inline calls, and goroutines whose function has returned.
Yielded(i) ==
    {l.res : l \in {x \in concLog : x.idx = i /\ x.how = "call"}}
    \cup {t.res : t \in {u \in tasks : u.idx = i /\ u.at = "done"}}

\* A lookup result that ends resolution, and the outcome it stands for.
Decisive(res) == res.err # NoErr \/ res.ok

OutcomeOf(res) ==
    IF res.err # NoErr THEN Return(NilVal, res.err) ELSE Return(res.val, NoErr)

\* The collect loop waits for a channel that nothing will ever write or close.
ConcBlocked ==
    /\ pc = "conc"
    /\ cpc = "collect"
    /\ ~panicked
    /\ cIdx <= Len(args)
    /\ ~CanReceive(results[cIdx])
    /\ \A t \in tasks : t.idx = cIdx => t.at # "running"

\* C1: when every candidate key matches exactly one registry entry, the
\* concurrent resolver returns the outcome of the lowest-index key whose lookup
\* yielded an error or found=true (NotFound when none did), whatever the order
\* in which the goroutines finish.
C1_PositionalPriority ==
    (cpc = "returned" /\ RoutedOnce) =>
        IF IsNotFound(concOut)
        THEN \A i \in DOMAIN args :
                 Yielded(i) # {} /\ \A r \in Yielded(i) : ~Decisive(r)
        ELSE \E i \in DOMAIN args :
                 /\ \E r \in Yielded(i) : Decisive(r) /\ concOut = OutcomeOf(r)
                 /\ \A j \in 1..(i - 1) :
                        Yielded(j) # {} /\ \A r \in Yielded(j) : ~Decisive(r)

\* C1 witness: the call returned the first key's goroutine's value although the
\* second key's goroutine, of another entry, had a found=true result waiting
\* unread in its channel.
C1_Witness ==
    /\ cpc = "returned"
    /\ RoutedOnce
    /\ Len(args) = 2
    /\ Matching(1) # Matching(2)
    /\ \E t \in tasks : t.idx = 1 /\ t.at = "done" /\ concOut = Return(t.res.val, NoErr)
    /\ \E t \in tasks : t.idx = 2 /\ t.at = "done" /\ t.res.ok /\ t.res.err = NoErr
                        /\ results[2].buf = <<t.res>>
                        /\ concOut # Return(t.res.val, NoErr)

\* Only Plain and Fallible entries, and at least one.
PlainOnly ==
    /\ DOMAIN registry # {}
    /\ \A p \in DOMAIN registry : registry[p] \in {Plain, Fallible}

\* C2: over a non-empty registry of Plain/Fallible entries and a live context,
\* whenever one resolver returns Success or NotFound for the candidate keys,
\* the other returns the identical outcome.
C2_SeqConcIdentical ==
    (PlainOnly /\ Ctx = "live") =>
        /\ (IsSuccess(seqOut) \/ IsNotFound(seqOut)) =>
               /\ ~ConcBlocked
               /\ ~panicked
               /\ cpc = "returned" => concOut = seqOut
        /\ (cpc = "returned" /\ (IsSuccess(concOut) \/ IsNotFound(concOut))) =>
               concOut = seqOut

\* C3: under fair scheduling, a concurrent call of a valid resolver whose
\* lookup functions all return eventually returns one outcome, whether or not
\* every candidate key matches a registered prefix.
C3_Terminates ==
    (/\ NoErr \in MultiLookupContextValidate(Ctx, registry)
     /\ RoutedAtMostOnce) => <>(cpc = "returned")

\* C4: when no lookup of a call returns an error or found=true (every matching
\* entry misses, or no entry matches), the call returns MatchFailedError: not
\* another error, not a value, and not nothing at all.
C4_AbsenceIsNotFound ==
    /\ (/\ pc # "seq"
        /\ (\A k \in DOMAIN seqLog : ~Decisive(seqLog[k].res))
        /\ (\A i \in DOMAIN args : \A p \in Matching(i) :
                registry[p] \in {Plain, Fallible}))
         => IsNotFound(seqOut)
    /\ (/\ pc \in {"conc", "done"}
        /\ NoErr \in MultiLookupContextValidate(Ctx, registry)
        /\ RoutedAtMostOnce
        /\ (\A i \in DOMAIN args : \A r \in Yielded(i) : ~Decisive(r)))
         => /\ ~ConcBlocked
            /\ cpc = "returned" => IsNotFound(concOut)

\* C5: in the sequential resolver, a lookup that returns a non-nil error is
\* the last lookup of the call, and the call returns nil with that error.
C5_SeqErrorShortCircuit ==
    \A k \in DOMAIN seqLog :
        seqLog[k].res.err # NoErr =>
            /\ k = Len(seqLog)
            /\ seqOut = Return(NilVal, seqLog[k].res.err)

\* C5 witness: the first key's Fallible lookup failed and the call returned its
\* error after that single lookup, although the second key's function returns
\* found=true (as the concurrent call, which does call it, later shows).
C5_Witness ==
    /\ Len(args) = 2
    /\ Len(seqLog) = 1
    /\ seqLog[1].idx = 1
    /\ seqLog[1].res.err # NoErr
    /\ seqOut = Return(NilVal, seqLog[1].res.err)
    /\ \E l \in concLog :
           /\ l.idx = 2
           /\ l.how = "call"
           /\ l.res.ok
           /\ l.res.err = NoErr

\* C6: in the concurrent resolver, a receive that yields a non-nil error is the
\* last receive of the call (every earlier one yielded a miss, no later channel
\* is read), and the call returns nil with that error.
C6_ConcErrorPrecedence ==
    \A k \in DOMAIN reads :
        reads[k].res.err # NoErr =>
            /\ k = Len(reads)
            /\ \A j \in 1..(k - 1) : ~Decisive(reads[j].res)
            /\ cpc = "returned"
            /\ concOut = Return(NilVal, reads[k].res.err)

\* C6 witness: the call returned the error read from one key's channel while a
\* later key's goroutine had already put a found=true result in its channel,
\* which stays unread.
C6_Witness ==
    /\ cpc = "returned"
    /\ Len(reads) >= 1
    /\ reads[Len(reads)].res.err # NoErr
    /\ concOut = Return(NilVal, reads[Len(reads)].res.err)
    /\ \E t \in tasks :
           /\ t.idx > reads[Len(reads)].idx
           /\ t.at = "done"
           /\ t.res.ok /\ t.res.err = NoErr
           /\ results[t.idx].buf = <<t.res>>

\* C7: in both resolvers, a lookup result with found=true, no error and the
\* empty value "" ends the call with that value and a nil error: it is the last
\* lookup made (sequential) or the last channel read (concurrent).
C7_FoundIsSoleArbiter ==
    /\ \A k \in DOMAIN seqLog :
           (seqLog[k].res.ok /\ seqLog[k].res.err = NoErr
                /\ seqLog[k].res.val = ZeroVal) =>
               k = Len(seqLog) /\ seqOut = Return(ZeroVal, NoErr)
    /\ \A k \in DOMAIN reads :
           (reads[k].res.ok /\ reads[k].res.err = NoErr
                /\ reads[k].res.val = ZeroVal) =>
               k = Len(reads) /\ cpc = "returned" /\ concOut = Return(ZeroVal, NoErr)

\* C7 witness: both resolvers returned the empty value found for the first of
\* two keys, the second of which has a matching entry too.
C7_Witness ==
    /\ Len(args) = 2
    /\ Matching(2) # {}
    /\ seqLog # <<>> /\ seqLog[Len(seqLog)].idx = 1
    /\ seqOut = Return(ZeroVal, NoErr)
    /\ cpc = "returned"
    /\ reads # <<>> /\ reads[Len(reads)].idx = 1
    /\ concOut = Return(ZeroVal, NoErr)

\* What the Plain/Fallible function of entry p is known to return for the i-th
\* key (from any call made to it so far; the functions are pure).
Known(p, i) == {r.res : r \in {x \in ret : x.p = p /\ x.bare = Strip(p, args[i])}}

\* C8: when every entry matching the keys before the i-th is a Plain/Fallible
\* function that returns found=false without error, and the one entry matching
\* the i-th key returns found=true without error, the sequential resolver
\* returns that entry's value and a nil error.
C8_FirstMatchWins ==
    pc # "seq" =>
        \A i \in DOMAIN args :
            \A p \in Matching(i) :
                \A r \in Known(p, i) :
                    (/\ Matching(i) = {p}
                     /\ registry[p] \in {Plain, Fallible}
                     /\ r.ok /\ r.err = NoErr
                     /\ \A j \in 1..(i - 1) : \A q \in Matching(j) :
                            /\ registry[q] \in {Plain, Fallible}
                            /\ Known(q, j) # {}
                            /\ \A m \in Known(q, j) : ~Decisive(m))
                    => seqOut = Return(r.val, NoErr)

\* C8 witness: the first key's entry missed, the second key's other entry was
\* then called and found the bare key, which is what the call returned.
C8_Witness ==
    /\ Len(args) = 2
    /\ Len(seqLog) = 2
    /\ seqLog[1].idx = 1 /\ ~Decisive(seqLog[1].res)
    /\ seqLog[2].idx = 2 /\ seqLog[2].res.ok /\ seqLog[2].res.err = NoErr
    /\ seqLog[1].p # seqLog[2].p
    /\ seqOut = Return(Strip(seqLog[2].p, args[2]), NoErr)

\* C9: once a lookup of a sequential call has returned found=true, the call
\* makes no further lookup.
C9_NoLookupAfterFound ==
    [][(\E k \in DOMAIN seqLog : seqLog[k].res.ok) => seqLog' = seqLog]_vars

\* C9 witness: the call is over after the single lookup for the first key,
\* which was found, although the second key matches a Plain/Fallible entry.
C9_Witness ==
    /\ pc = "done"
    /\ Len(args) = 2
    /\ \E p \in Matching(2) : registry[p] \in {Plain, Fallible}
    /\ Len(seqLog) = 1
    /\ seqLog[1].idx = 1
    /\ seqLog[1].res.ok
    /\ IsSuccess(seqOut)

\* C10 as the specification states it: an empty registry makes both Validate methods return
\* ErrNoFunctionRegistered, whether or not a context is bound.
C10_EmptyAlwaysNoFunctionRegistered ==
    DOMAIN registry = {} =>
        /\ mlValid \in {NotRun, ErrNoFunctionRegistered}
        /\ mlcValid \in {NotRun, ErrNoFunctionRegistered}

\* C10 amended: an empty registry always fails validation; MultiLookup.Validate
\* returns ErrNoFunctionRegistered, and MultiLookupContext.Validate returns
\* ErrNoFunctionRegistered when a context is bound and ErrContextUntypedNil
\* when Ctx is nil.
C10_EmptyRegistryFails ==
    DOMAIN registry = {} =>
        /\ mlValid \in {NotRun, ErrNoFunctionRegistered}
        /\ mlcValid \in {NotRun, IF Ctx = "nil" THEN ErrContextUntypedNil
                                 ELSE ErrNoFunctionRegistered}

\* C10 witness: both methods have validated an empty registry with a bound
\* context and both returned ErrNoFunctionRegistered.
C10_Witness ==
    /\ DOMAIN registry = {}
    /\ Ctx = "live"
    /\ pc = "validated"
    /\ mlValid = ErrNoFunctionRegistered
    /\ mlcValid = ErrNoFunctionRegistered

\* The shapes that take a context.
ContextAware == {Contextual, ContextualFallible}

\* C11: MultiLookupContext.Validate returns ErrContextUntypedNil whenever Ctx
\* is nil, and never for a resolver made by BindContext with a non-nil context.
C11_MissingContext ==
    pc = "validated" =>
        /\ Ctx = "nil" => mlcValid = ErrContextUntypedNil
        /\ \A c \in {"live"} :
               Ctx = BindContext(registry, c).Ctx => mlcValid # ErrContextUntypedNil

\* C11 witness: a registry of one context-aware entry and no bound context (the
\* "forget to call BindContext" case) was validated: ErrContextUntypedNil.
C11_Witness ==
    /\ pc = "validated"
    /\ Ctx = "nil"
    /\ DOMAIN registry = {DotA}
    /\ registry[DotA] = ContextualFallible
    /\ mlcValid = ErrContextUntypedNil

\* C12 as the specification states it: when the registry holds a context-aware
\* entry, MultiLookup.Validate returns an InvalidFunctionError of Type
\* "MultiLookup" whose Prefix is an entry of a context-aware shape.
C12_NamesContextAwareEntry ==
    (mlValid # NotRun /\ \E p \in DOMAIN registry : registry[p] \in ContextAware) =>
        /\ mlValid.kind = "InvalidFunctionError"
        /\ mlValid.Type = "MultiLookup"
        /\ mlValid.Prefix \in DOMAIN registry
        /\ registry[mlValid.Prefix] \in ContextAware

\* C12: when the registry holds a context-aware entry, MultiLookup.Validate
\* returns an InvalidFunctionError of Type "MultiLookup" whose Prefix is an
\* entry that is neither Plain nor Fallible: a context-aware one whenever the
\* registry holds no entry of an unrecognized shape.
C12_ContextualRejected ==
    (mlValid # NotRun /\ \E p \in DOMAIN registry : registry[p] \in ContextAware) =>
        /\ mlValid.kind = "InvalidFunctionError"
        /\ mlValid.Type = "MultiLookup"
        /\ mlValid.Prefix \in DOMAIN registry
        /\ registry[mlValid.Prefix] \notin {Plain, Fallible}
        /\ (\A q \in DOMAIN registry : registry[q] # Other) =>
               registry[mlValid.Prefix] \in ContextAware

\* C12 witness: among two Plain entries and a ContextualFallible one, Validate
\* named the ContextualFallible one.
C12_Witness ==
    /\ mlValid # NotRun
    /\ DOMAIN registry = PrefixUniverse
    /\ registry[SlashA] = Plain
    /\ registry[DotA] = Plain
    /\ registry[SlashAB] = ContextualFallible
    /\ mlValid = InvalidFunctionError("MultiLookup", SlashAB,
                                      "consider calling BindContext(ctx)")

\* C13: MultiLookup.Validate returns nil exactly when the registry is non-empty
\* and every entry is Plain or Fallible; MultiLookupContext.Validate returns nil
\* exactly when a context is bound, the registry is non-empty and every entry
\* has one of the four shapes.
C13_AcceptsExactlyLegal ==
    pc = "validated" =>
        /\ mlValid = NoErr <=>
               /\ DOMAIN registry # {}
               /\ \A p \in DOMAIN registry : registry[p] \in {Plain, Fallible}
        /\ mlcValid = NoErr <=>
               /\ Ctx # "nil"
               /\ DOMAIN registry # {}
               /\ \A p \in DOMAIN registry :
                      registry[p] \in {Plain, Fallible, Contextual, ContextualFallible}

\* C13 witness: a registry of a Plain, a Fallible and a Contextual entry with a
\* bound context: rejected by MultiLookup.Validate, accepted by
\* MultiLookupContext.Validate.
C13_Witness ==
    /\ pc = "validated"
    /\ Ctx = "live"
    /\ DOMAIN registry = PrefixUniverse
    /\ registry[SlashA] = Plain
    /\ registry[DotA] = Fallible
    /\ registry[SlashAB] = Contextual
    /\ mlValid.kind = "InvalidFunctionError"
    /\ mlcValid = NoErr

\* C14: a step of either Validate leaves the registry and the bound context as
\* they were, calls no lookup function and starts no goroutine, and returns a
\* verdict of the same kind as the same method's previous verdict.
C14_ValidateInspectsOnly ==
    [][/\ registry' = registry
       /\ Ctx' = Ctx
       /\ ret' = ret
       /\ seqLog' = seqLog
       /\ concLog' = concLog
       /\ tasks' = tasks
       /\ mlValid # NotRun => mlValid'.kind = mlValid.kind
       /\ mlcValid # NotRun => mlcValid'.kind = mlcValid.kind]_vars

\* C14 witness: MultiLookup.Validate has run a second time, after both methods
\* had given their verdicts on a registry holding an entry of each kind of
\* offence, and it gave an InvalidFunctionError again.
C14_Witness ==
    /\ pc = "cvalidate"
    /\ mlcValid.kind = "InvalidFunctionError"
    /\ mlValid.kind = "InvalidFunctionError"
    /\ \E p, q \in DOMAIN registry :
           registry[p] \in ContextAware /\ registry[q] = Other

\* A MatchFailedError that lists exactly the candidate keys, in order, and
\* the label of every registry entry, once per entry.
ListsAll(e) ==
    /\ e.Args = args
    /\ DOMAIN e.Prefixes = {p.label : p \in DOMAIN registry}
    /\ \A p \in DOMAIN registry :
           e.Prefixes[p.label]
               = Cardinality({q \in DOMAIN registry : q.label = p.label})

\* C15: whenever either resolver returns MatchFailedError, its Args are the
\* candidate keys of the call, in order, and its Prefixes hold the label of
\* every registered prefix, one per registry entry.
C15_NotFoundListsAll ==
    /\ IsNotFound(seqOut) => ListsAll(seqOut.err)
    /\ IsNotFound(concOut) => ListsAll(concOut.err)

\* C15 witness: both resolvers returned MatchFailedError for two keys that
\* missed, with a registry of two entries that share the label "a".
C15_Witness ==
    /\ DOMAIN registry = {SlashA, DotA}
    /\ Len(args) = 2
    /\ args[1] # args[2]
    /\ IsNotFound(seqOut)
    /\ IsNotFound(concOut)
    /\ concOut.err.Prefixes[<<"a">>] = 2
    /\ Len(seqLog) = 2

\* C16 as the specification states it: with an empty registry or a
\* context-aware entry the sequential call, and with an empty registry or no
\* bound context the concurrent call, runs no lookup function and returns no
\* Success.
C16_InvalidNeverResolves ==
    /\ (DOMAIN registry = {} \/ \E p \in DOMAIN registry : registry[p] \in ContextAware)
         => seqLog = <<>> /\ ~IsSuccess(seqOut)
    /\ (DOMAIN registry = {} \/ Ctx = "nil")
         => concLog = {} /\ tasks = {} /\ ~IsSuccess(concOut)

\* C16: with an empty registry neither call runs a lookup function or returns
\* Success; without a bound context the concurrent call runs no lookup function
\* and returns nothing (it panics); the sequential call never calls the function
\* of a context-aware entry, and a Success it returns is the value of a Plain
\* or Fallible entry it called before meeting a context-aware one.
C16_InvalidConfiguration ==
    /\ DOMAIN registry = {}
         => /\ seqLog = <<>> /\ ~IsSuccess(seqOut)
            /\ concLog = {} /\ tasks = {} /\ ~IsSuccess(concOut)
    /\ Ctx = "nil" => concLog = {} /\ tasks = {} /\ ~concOut.returns
    /\ \A k \in DOMAIN seqLog : registry[seqLog[k].p] \in {Plain, Fallible}
    /\ IsSuccess(seqOut) =>
           /\ seqLog # <<>>
           /\ seqLog[Len(seqLog)].res.ok
           /\ seqOut.val = seqLog[Len(seqLog)].res.val

\* C16 witness: a registry of one Contextual entry and no bound context, and a
\* key that matches the entry: the sequential call returned
\* InvalidFunctionError and the concurrent call panicked in
\* context.WithCancel.
C16_Witness ==
    /\ DOMAIN registry = {DotA}
    /\ registry[DotA] = Contextual
    /\ Ctx = "nil"
    /\ args = << <<"a", ".", "y">> >>
    /\ seqOut.returns
    /\ seqOut.err.kind = "InvalidFunctionError"
    /\ panicked

\* C17: a concurrent call that has returned has cancelled its derived context,
\* on whichever path it returned, and no step changes the bound parent context.
C17_CancelledOnReturn ==
    /\ [](cpc = "returned" => cancelled)
    /\ [][Ctx' = Ctx]_vars

\* C17 witness: the call returned a Success and cancelled the derived context
\* while a goroutine it had started was still running its lookup function.
C17_Witness ==
    /\ cpc = "returned"
    /\ cancelled
    /\ Ctx = "live"
    /\ IsSuccess(concOut)
    /\ \E t \in tasks : t.at = "running"

\* C18: a goroutine whose lookup function returns can always send its result
\* and close its channel: the send neither blocks nor panics, whether or not
\* FuncMapValue has returned.
C18_TaskNeverBlocksOrFails ==
    (NoErr \in MultiLookupContextValidate(Ctx, registry) /\ ~panicked) =>
        \A t \in tasks : t.at = "running" => SendTo(results[t.idx]) = "ok"

\* The entries that match a key, and whether a call's keys each match exactly
\* one entry, of a shape the concurrent resolver runs.
MatchingKey(k) == {p \in DOMAIN registry : Match(p, k)}

KeysRoutedOnce(a) ==
    \A i \in DOMAIN a :
        /\ Cardinality(MatchingKey(a[i])) = 1
        /\ \A p \in MatchingKey(a[i]) : registry[p] # Other

\* C19: two simultaneous calls on one valid resolver are independent: each
\* call's derived context is cancelled by that call's return only, and a call
\* whose keys each match one entry (which, run alone, always returns) goes on
\* to return whatever the other call does, with the outcome of its own
\* lowest-index decisive key.
C19_CallsIndependent ==
    NoErr \in MultiLookupContextValidate(Ctx, registry) =>
        /\ cancelled => cpc = "returned"
        /\ other.cancelled => other.cpc = "returned"
        /\ (args # <<>> /\ KeysRoutedOnce(args) /\ cpc \in {"dispatch", "collect"})
               => ~panicked
        /\ (otherArgs # <<>> /\ KeysRoutedOnce(otherArgs)
                /\ other.cpc \in {"dispatch", "collect"}) => ~panicked
        /\ (KeysRoutedOnce(args) /\ cpc = "returned") => C1_PositionalPriority

\* C20: two MultiLookup.FuncMapValue calls with the same registry, the same
\* keys and deterministic lookup functions return the same outcome, also when
\* several registered prefixes match one key.
C20_SameOutcomeEveryCall ==
    (/\ NoErr \in MultiLookupValidate(registry)
     /\ seqPrev.returns
     /\ seqOut.returns) => seqOut = seqPrev

\* The writers of the i-th key's channel in the concurrent call: the inline
\* calls made and the goroutines started for it.
Writers(i) == {l \in concLog : l.idx = i}

\* C21: in a concurrent call of a valid resolver the channel of every key that
\* some registered prefix matches has one writer, also when several prefixes
\* match the key: never two, so that no send meets a full or closed channel,
\* and once dispatch is over exactly one.
C21_SingleWriteCells ==
    NoErr \in MultiLookupContextValidate(Ctx, registry) =>
        /\ ~panicked
        /\ \A i \in DOMAIN args : Cardinality(Writers(i)) <= 1
        /\ cpc \in {"collect", "returned"} =>
               \A i \in DOMAIN args :
                   Matching(i) # {} => Cardinality(Writers(i)) = 1

\* Every matching entry of every key has been called inline or started as a
\* goroutine.
AllDispatched ==
    \A i \in DOMAIN args : \A p \in Matching(i) :
        \E l \in concLog : l.idx = i /\ l.p = p

\* C22: the collect loop reads only once every dispatch has been issued; its
\* k-th read is of the k-th key's channel (ascending, each at most once); what
\* it reads is a result a lookup for that key has written; and no read follows
\* one that yielded an error or found=true.
C22_CollectorOrdering ==
    /\ reads # <<>> => AllDispatched
    /\ \A k \in DOMAIN reads :
           /\ reads[k].idx = k
           /\ reads[k].res \in Yielded(k)
           /\ k < Len(reads) => ~Decisive(reads[k].res)

\* C22 witness: the call returned after two reads; the first key's result came
\* from a goroutine and was a miss, the second read was decisive.
C22_Witness ==
    /\ cpc = "returned"
    /\ Len(reads) = 2
    /\ \E t \in tasks : t.idx = 1 /\ t.at = "done" /\ reads[1].res = t.res
    /\ Decisive(reads[2].res)

\* The i-th key's channel holds res, or the collect loop has read res from it.
InCell(i, res) ==
    /\ results[i].closed
    /\ \/ results[i].buf = <<res>>
       \/ i <= Len(reads) /\ reads[i].res = res

\* C23: in the concurrent call a Plain/Fallible function is called by the
\* dispatch loop itself, and what it returned is in its key's channel as soon
\* as the call is over (unless the send panicked); so once anything has been
\* called or started for a key, or any channel read, the Plain/Fallible
\* entries of all earlier keys have been called and have returned.
C23_InlineExecution ==
    /\ \A l \in concLog :
           registry[l.p] \in {Plain, Fallible} =>
               /\ l.how = "call"
               /\ panicked \/ InCell(l.idx, l.res)
    /\ \A j \in DOMAIN args :
           (Writers(j) # {} \/ reads # <<>>) =>
               \A i \in 1..(j - 1) : \A p \in Matching(i) :
                   registry[p] \in {Plain, Fallible} =>
                       \E l \in concLog : l.idx = i /\ l.p = p /\ l.how = "call"

\* C23 witness: a goroutine has been started for the second key, nothing has
\* been read yet, and the first key's Plain/Fallible result already sits in
\* its channel.
C23_Witness ==
    /\ reads = <<>>
    /\ ~panicked
    /\ \E t \in tasks : t.idx = 2 /\ t.at = "running"
    /\ \E l \in concLog :
           /\ l.idx = 1
           /\ l.how = "call"
           /\ results[1].buf = <<l.res>>

\* C24: the concurrent call has called or started every matching lookup of
\* every key by the time it reads its first channel, whatever the inline
\* lookups have returned; and over Plain/Fallible entries it still returns what
\* the sequential call returned, which stops at the earliest decisive key.
C24_NoShortCircuitInDispatch ==
    /\ (cpc = "collect" \/ reads # <<>>) => AllDispatched
    /\ (PlainOnly /\ cpc = "returned") => concOut = seqOut

\* C24 witness: both calls returned the first key's value; the concurrent call
\* had also called the second key's function, which the sequential call never
\* did.
C24_Witness ==
    /\ PlainOnly
    /\ cpc = "returned"
    /\ IsSuccess(concOut)
    /\ concOut = seqOut
    /\ Len(reads) = 1
    /\ \E l \in concLog : l.idx = 2 /\ l.how = "call"
    /\ \A k \in DOMAIN seqLog : seqLog[k].idx = 1

\* The tasks of the call whose lookup function has not returned yet.
InFlight == {t \in tasks : t.at = "running"}

\* C25: while the concurrent call is dispatching or waiting on a channel, the
\* derived context its running goroutines hold is done only if the bound
\* parent context is done; cancel() takes effect once, in the very step in
\* which the call chooses its outcome and returns.
C25_CancelOnlyOnReturn ==
    /\ []((cpc \in {"dispatch", "collect"} /\ InFlight # {} /\ DerivedDone)
              => Ctx = "done")
    /\ [][cancelled' # cancelled =>
              /\ ~cancelled
              /\ cpc # "returned"
              /\ cpc' = "returned"
              /\ concOut'.returns]_vars

\* C25 witness: the call has read a miss from the first channel and waits on
\* the second, whose goroutine is still running with a live derived context.
C25_Witness ==
    /\ cpc = "collect"
    /\ Len(reads) = 1
    /\ ~DerivedDone
    /\ \E t \in InFlight : t.idx = 2 /\ cIdx = 2

\* The collect loop is waiting on a channel that holds nothing yet.
Blocked == cpc = "collect" /\ cIdx <= Len(args) /\ ~CanReceive(results[cIdx])

\* C26: a bound context that is cancelled or expires during the concurrent
\* call makes the derived context done, and that step changes nothing of the
\* call; a call blocked on a channel does not move until the channel holds a
\* result, and when the collect loop returns it returns what the result it
\* has just received dictates, or NotFound after the last channel.
C26_NoIntrinsicTimeout ==
    /\ [](Ctx = "done" => DerivedDone)
    /\ [][Ctx' # Ctx => UNCHANGED <<cpc, cIdx, concOut, reads, results, tasks>>]_vars
    /\ [][Blocked => UNCHANGED <<cpc, cIdx, concOut, reads>>]_vars
    /\ [][(cpc = "collect" /\ cpc' = "returned") =>
              \/ /\ cIdx > Len(args)
                 /\ IsNotFound(concOut')
              \/ /\ cIdx <= Len(args)
                 /\ CanReceive(results[cIdx])
                 /\ reads' = Append(reads, [idx |-> cIdx, res |-> Received(results[cIdx])])
                 /\ concOut' = CollectSwitch(Received(results[cIdx]))]_vars

\* C26 witness: the bound context is done and with it the derived context,
\* while the call still waits on the channel of a goroutine that is running.
C26_Witness ==
    /\ Ctx = "done"
    /\ DerivedDone
    /\ ~cancelled
    /\ Blocked
    /\ \E t \in InFlight : t.idx = cIdx

\* Exactly one of the three outcomes, and a nil value next to any error.
OneOutcome(o) ==
    /\ Cardinality({k \in {"Success", "NotFound", "Failure"} :
                        \/ k = "Success" /\ IsSuccess(o)
                        \/ k = "NotFound" /\ IsNotFound(o)
                        \/ k = "Failure" /\ IsFailure(o)}) = 1
    /\ o.err # NoErr => o.val = NilVal

\* A lookup result that makes a Success.
Wins(res) == res.ok /\ res.err = NoErr

\* The lookups of the concurrent call for the i-th key that have returned:
\* those called inline and the goroutines that are through.
Finished(i) ==
    {[p |-> l.p, res |-> l.res] : l \in {x \in concLog : x.idx = i /\ x.how = "call"}}
    \cup {[p |-> t.p, res |-> t.res] : t \in {u \in tasks : u.idx = i /\ u.at = "done"}}

\* C27: a call that has returned has exactly one of the outcomes Success,
\* NotFound and Failure, with a nil value next to any error; the value of a
\* Success is the value of one lookup of the same call that returned
\* found=true and a nil error: the only such lookup of a sequential call, and
\* the only finished lookup of the key whose channel a concurrent call read
\* last.
C27_OneWinningValue ==
    /\ seqOut.returns =>
           /\ OneOutcome(seqOut)
           /\ IsSuccess(seqOut) =>
                  /\ Cardinality({k \in DOMAIN seqLog : Wins(seqLog[k].res)}) = 1
                  /\ Wins(seqLog[Len(seqLog)].res)
                  /\ seqOut.val = seqLog[Len(seqLog)].res.val
    /\ cpc = "returned" =>
           /\ OneOutcome(concOut)
           /\ IsSuccess(concOut) =>
                  /\ reads # <<>>
                  /\ Wins(reads[Len(reads)].res)
                  /\ concOut.val = reads[Len(reads)].res.val
                  /\ \E f \in Finished(Len(reads)) :
                         /\ Finished(Len(reads)) = {f}
                         /\ f.res = reads[Len(reads)].res

\* C27 witness: the concurrent call returned the value of the second key's
\* goroutine after a miss on the first key, and the sequential call had
\* returned a Failure with a nil value.
C27_Witness ==
    /\ cpc = "returned"
    /\ IsSuccess(concOut)
    /\ Len(reads) = 2
    /\ \E t \in tasks : t.idx = 2 /\ t.at = "done" /\ t.res.val = concOut.val
    /\ IsFailure(seqOut)
    /\ seqOut.val = NilVal

\* A lookup result with found=true and a non-nil error.
FoundWithError(res) == res.ok /\ res.err # NoErr

\* C28: a lookup result with found=true and a non-nil error, returned to the
\* sequential call or received by the concurrent call, makes the call return
\* nil with that error, never the value that came with it.
C28_ErrorDominatesFound ==
    /\ \A k \in DOMAIN seqLog :
           FoundWithError(seqLog[k].res) =>
               /\ IsFailure(seqOut)
               /\ seqOut = Return(NilVal, seqLog[k].res.err)
    /\ \A k \in DOMAIN reads :
           FoundWithError(reads[k].res) =>
               /\ cpc = "returned"
               /\ IsFailure(concOut)
               /\ concOut = Return(NilVal, reads[k].res.err)

\* C28 witness: a Fallible function returned the non-empty bare key,
\* found=true and an error to the sequential call and then to the concurrent
\* call; both calls returned a Failure with that error.
C28_Witness ==
    /\ \E k \in DOMAIN seqLog :
           /\ FoundWithError(seqLog[k].res)
           /\ seqLog[k].res.val # ZeroVal
           /\ IsFailure(seqOut)
    /\ \E k \in DOMAIN reads :
           /\ FoundWithError(reads[k].res)
           /\ reads[k].res.val # ZeroVal
           /\ IsFailure(concOut)
           /\ concOut.err = reads[k].res.err

\* The shapes MultiLookup.FuncMapValue does not run.
NotSequential == {Contextual, ContextualFallible, Other}

\* The Failure of the default case of the sequential switch for entry p.
SeqInvalid(p) ==
    Return(NilVal, InvalidFunctionError("MultiLookup", p, "consider calling Validate()"))

\* C29: the step in which the sequential call reaches a matching entry that is
\* Contextual, ContextualFallible or of an unrecognized shape ends the call
\* with nil and an InvalidFunctionError of Type "MultiLookup" naming that
\* entry, and calls no function; the call returns such a Failure only for an
\* entry that matches the key it had reached, every lookup before having
\* missed without error.
C29_UnvalidatedSequential ==
    /\ [][\A p \in seqVisited' \ seqVisited :
              registry[p] \in NotSequential =>
                  /\ Match(p, args[seqIdx])
                  /\ seqOut' = SeqInvalid(p)
                  /\ pc' # "seq"
                  /\ seqLog' = seqLog
                  /\ ret' = ret]_vars
    /\ []((seqOut.returns /\ seqOut.err.kind = "InvalidFunctionError") =>
              /\ seqOut.err.Prefix \in Matching(seqIdx)
              /\ registry[seqOut.err.Prefix] \in NotSequential
              /\ seqOut = SeqInvalid(seqOut.err.Prefix)
              /\ \A k \in DOMAIN seqLog : ~Decisive(seqLog[k].res))
    /\ [](\A k \in DOMAIN seqLog : registry[seqLog[k].p] \notin NotSequential)

\* C29 witness: the first key's Plain lookup missed, the second key matched a
\* Contextual entry, and the call returned the InvalidFunctionError for it
\* after that single lookup.
C29_Witness ==
    /\ Len(args) = 2
    /\ Len(seqLog) = 1
    /\ seqLog[1].idx = 1
    /\ ~Decisive(seqLog[1].res)
    /\ seqIdx = 2
    /\ \E p \in Matching(2) : registry[p] = Contextual /\ seqOut = SeqInvalid(p)

\* C29 second witness: the call returned the first key's value although the
\* second key matches only an entry of an unrecognized shape, which stays
\* undetected.
C29_Undetected ==
    /\ Len(args) = 2
    /\ IsSuccess(seqOut)
    /\ seqIdx = 1
    /\ Matching(2) # {}
    /\ \A p \in Matching(2) : registry[p] = Other

\* C30: every lookup of a sequential call is called and has returned within
\* one step of the call, one lookup per step; the call starts no goroutine,
\* and once it has returned no lookup of it runs or returns any more.
C30_SequentialSynchronous ==
    /\ [](\A k \in DOMAIN seqLog : seqLog[k].how = "call")
    /\ [](pc = "seq" => tasks = {})
    /\ [][seqLog' # seqLog =>
              /\ pc = "seq"
              /\ ~seqOut.returns
              /\ \E l \in {seqLog'[Len(seqLog')]} :
                     /\ seqLog' = Append(seqLog, l)
                     /\ l.idx = seqIdx
                     /\ seqOut' \in {Continue, OutcomeOf(l.res)}
              /\ tasks' = tasks]_vars

\* C30 witness: the sequential call has returned after two lookups, one per
\* key, both of which had returned before it did; no goroutine exists.
C30_Witness ==
    /\ seqOut.returns
    /\ pc = "conc"
    /\ cpc = "idle"
    /\ Len(seqLog) = 2
    /\ seqLog[1].idx = 1 /\ seqLog[2].idx = 2
    /\ IsSuccess(seqOut)
    /\ seqOut.val = seqLog[2].res.val
    /\ tasks = {}

-----------------------------------------------------------------------------
\* The prefix contract, over every label and key of a small alphabet with an
\* upper-case letter, a blank and both separators: a registry that holds a
\* label as a DotPrefix, as a SlashPrefix or as both, with Plain functions, is
\* asked, by the sequential resolver, for one key.

MaxLabelLen == 2

MaxKeyLen == 4

Alphabet == {"a", "A", " ", ".", "/"}

Strings(n) == UNION {[1..k -> Alphabet] : k \in 0..n}

ContractPrefixes ==
    {DotPrefix(l) : l \in Strings(MaxLabelLen)}
    \cup {SlashPrefix(l) : l \in Strings(MaxLabelLen)}

InitPrefix ==
    /\ \E l \in Strings(MaxLabelLen) :
           \E D \in SUBSET {p \in ContractPrefixes : p.label = l} :
               /\ D # {}
               /\ registry = [q \in D |-> Plain]
    /\ \E k \in Strings(MaxKeyLen) : args = <<k>>
    /\ Ctx = "live"
    /\ pc = "seq"
    /\ ret = {}
    /\ mlValid = NotRun
    /\ mlcValid = NotRun
    /\ seqIdx = 1
    /\ seqVisited = {}
    /\ seqLog = <<>>
    /\ seqOut = Continue
    /\ cpc = "idle"
    /\ cIdx = 1
    /\ cVisited = {}
    /\ results = <<>>
    /\ tasks = {}
    /\ concLog = {}
    /\ reads = <<>>
    /\ concOut = Continue
    /\ cancelled = FALSE
    /\ panicked = FALSE
    /\ seqPrev = Continue
    /\ otherArgs = <<>>
    /\ other = NotCalled

NextPrefix ==
    \/ SeqEntry
    \/ SeqNextArg
    \/ SeqNotFound

PrefixSpec == InitPrefix /\ [][NextPrefix]_vars

\* key starts with lead, character by character.
StartsWith(key, lead) ==
    /\ Len(lead) <= Len(key)
    /\ \A j \in 1..Len(lead) : key[j] = lead[j]

\* The label followed by the separator of the prefix type.
Lead(p) == p.label \o (IF p.type = "DotPrefix" THEN <<".">> ELSE <<"/">>)

\* C31: Match(key) holds exactly when key starts, character for character,
\* with the label followed by "." (DotPrefix) or "/" (SlashPrefix); for a
\* matching key, label, separator and Strip(key) concatenated give the key
\* back; and the bare key the lookup function is called with is Strip(key) of a
\* key that matches.
C31_PrefixContract ==
    /\ \A p \in DOMAIN registry : \A i \in DOMAIN args :
           /\ Match(p, args[i]) <=> StartsWith(args[i], Lead(p))
           /\ Match(p, args[i]) =>
                  /\ Lead(p) \o Strip(p, args[i]) = args[i]
                  /\ Len(Strip(p, args[i])) = Len(args[i]) - Len(p.label) - 1
    /\ \A k \in DOMAIN seqLog :
           /\ Match(seqLog[k].p, args[seqLog[k].idx])
           /\ seqLog[k].bare = Strip(seqLog[k].p, args[seqLog[k].idx])
           /\ Lead(seqLog[k].p) \o seqLog[k].bare = args[seqLog[k].idx]
    /\ (seqOut.returns /\ \E p \in DOMAIN registry : StartsWith(args[1], Lead(p)))
           => seqLog # <<>>

\* C31 witness: the function of DotPrefix("a") was called with "a." for the
\* key "a.a.": one leading "a." was removed, the second one kept.
C31_Witness ==
    /\ DOMAIN registry = {DotA}
    /\ args = << <<"a", ".", "a", ".">> >>
    /\ Len(seqLog) = 1
    /\ seqLog[1].bare = <<"a", ".">>

\* C31 second witness: DotPrefix("a") did not match the key "A.a", and the
\* call returned NotFound without calling the function.
C31_NoCaseFolding ==
    /\ DOMAIN registry = {DotA}
    /\ args = << <<"A", ".", "a">> >>
    /\ seqLog = <<>>
    /\ IsNotFound(seqOut)

\* The same label registered under the other prefix type.
Twin(p) == IF p.type = "DotPrefix" THEN SlashPrefix(p.label) ELSE DotPrefix(p.label)

\* C32: a DotPrefix and a SlashPrefix of one label are two entries of the
\* registry, no key matches both, and a lookup is made only for the entry
\* whose separator is the character of the key right after the label.
C32_SeparatorsIndependent ==
    /\ \A p \in DOMAIN registry :
           /\ Twin(p) # p
           /\ \A i \in DOMAIN args : ~(Match(p, args[i]) /\ Match(Twin(p), args[i]))
    /\ \A k \in DOMAIN seqLog :
           LET p == seqLog[k].p
               key == args[seqLog[k].idx]
           IN  /\ Len(key) > Len(p.label)
               /\ key[Len(p.label) + 1] = (IF p.type = "DotPrefix" THEN "." ELSE "/")
               /\ \A j \in DOMAIN seqLog :
                      seqLog[j].idx = seqLog[k].idx => seqLog[j].p # Twin(p)

\* C32 witness: with "a" registered as DotPrefix and as SlashPrefix, the key
\* "a/a." went to the SlashPrefix entry alone, which found it.
C32_Witness ==
    /\ DOMAIN registry = {DotA, SlashA}
    /\ args = << <<"a", "/", "a", ".">> >>
    /\ Len(seqLog) = 1
    /\ seqLog[1].p = SlashA
    /\ seqOut = Return(<<"a", ".">>, NoErr)

\* C33: a concurrent call that returned the InvalidFunctionError of an entry of
\* unrecognized shape has read no channel and has cancelled the derived
\* context; every goroutine it had started for earlier keys can send its
\* result into its channel, neither blocking nor panicking.
C33_InvalidShapeInDispatch ==
    (cpc = "returned" /\ concOut.err.kind = "InvalidFunctionError") =>
        /\ registry[concOut.err.Prefix] = Other
        /\ concOut = Return(NilVal, InvalidFunctionError("MultiLookupContext",
                                 concOut.err.Prefix, "unexpected error! it might be a bug"))
        /\ reads = <<>>
        /\ cancelled
        /\ ~panicked
        /\ \A t \in InFlight : SendTo(results[t.idx]) = "ok"

====
